---- MODULE Spec2Model ----
(***************************************************************************)
(* Model of the Smartsheet proxy: the local-dev pipeline of server.py      *)
(* (fetch_smartsheet_data + AppHandler._handle_api) and the serverless     *)
(* pipeline of api/use-cases.py (_fetch_smartsheet_data + handler.do_GET). *)
(*                                                                         *)
(* JSON values are tagged so that an integer id and a string cell value    *)
(* can sit in the same record field: JStr(s), JInt(n), None.  Python       *)
(* dicts are functions whose DOMAIN is the set of keys present.            *)
(***************************************************************************)
EXTENDS Integers, Sequences, FiniteSets, TLC

VARIABLES token, config, req, resp

vars == <<token, config, req, resp>>

-----------------------------------------------------------------------------
(* Bounds *)

MaxTokenLen == 2

MaxSheetSize == 3

-----------------------------------------------------------------------------
(* Python values *)

None == [none |-> TRUE]

JStr(s) == [str |-> s]

JInt(n) == [int |-> n]

\* Python truthiness of the values that occur: None, "" and 0 are falsy.
Truthy(x) == x \notin {None, JStr(""), JInt(0)}

\* a or b
PyOr(a, b) == IF Truthy(a) THEN a ELSE b

\* d.get(k, dflt)
Get(d, k, dflt) == IF k \in DOMAIN d THEN d[k] ELSE dflt

\* d[k] = v
Put(d, k, v) == [x \in (DOMAIN d) \cup {k} |-> IF x = k THEN v ELSE d[x]]

\* str.strip(): drop leading and trailing whitespace
RECURSIVE LStrip(_)
LStrip(s) == IF s # <<>> /\ Head(s) = " " THEN LStrip(Tail(s)) ELSE s

RECURSIVE RStrip(_)
RStrip(s) ==
    IF s # <<>> /\ s[Len(s)] = " " THEN RStrip(SubSeq(s, 1, Len(s) - 1)) ELSE s

\* Faulty variant: the token is used as read, without .strip().
StripOmitted(s) == s

Strip(s) == RStrip(LStrip(s))

\* os.environ.get("SMARTSHEET_API_TOKEN", "")
EnvGet(env) == IF env.set THEN env.chars ELSE <<>>

-----------------------------------------------------------------------------
(* Exceptions *)

Exc(cls, msg) == [cls |-> cls, msg |-> msg]

HTTPError(code, reason) ==
    [cls |-> "HTTPError", msg |-> "HTTP Error " \o ToString(code) \o ": " \o reason,
     code |-> code, reason |-> reason]

\* The classes an exception of class cls is an instance of (what an except
\* clause naming one of them catches).
Ancestors(cls) ==
    CASE cls = "RuntimeError"      -> {"RuntimeError", "Exception"}
      [] cls = "RecursionError"    -> {"RecursionError", "RuntimeError", "Exception"}
      [] cls = "HTTPError"         -> {"HTTPError", "URLError", "OSError", "Exception"}
      [] cls = "URLError"          -> {"URLError", "OSError", "Exception"}
      [] cls = "TimeoutError"      -> {"TimeoutError", "OSError", "Exception"}
      [] cls = "FileNotFoundError" -> {"FileNotFoundError", "OSError", "Exception"}
      [] cls = "PermissionError"   -> {"PermissionError", "OSError", "Exception"}
      [] cls = "BrokenPipeError"   -> {"BrokenPipeError", "OSError", "Exception"}
      [] cls = "JSONDecodeError"   -> {"JSONDecodeError", "ValueError", "Exception"}
      [] cls = "KeyError"          -> {"KeyError", "LookupError", "Exception"}
      [] cls = "AttributeError"    -> {"AttributeError", "Exception"}
      [] OTHER                     -> {cls, "Exception"}

IsInstance(exc, base) == base \in Ancestors(exc.cls)

Raised(exc, calls) == [ok |-> FALSE, exc |-> exc, calls |-> calls]

Returned(value, calls) == [ok |-> TRUE, value |-> value, calls |-> calls]

-----------------------------------------------------------------------------
(* Configuration file and upstream API: what the outside world answers *)

\* open(CONFIG_PATH) followed by json.load(f)
OpenAndLoad(cfg) ==
    CASE cfg.file = "absent"     ->
             Raised(Exc("FileNotFoundError", "[Errno 2] No such file or directory"), 0)
      [] cfg.file = "unreadable" ->
             Raised(Exc("PermissionError", "[Errno 13] Permission denied"), 0)
      [] cfg.file = "invalid"    ->
             Raised(Exc("JSONDecodeError", "Expecting value: line 1 column 1 (char 0)"), 0)
      [] cfg.file = "deep"       ->
             Raised(Exc("RecursionError",
                        "maximum recursion depth exceeded while decoding a JSON array"), 0)
      [] OTHER                   -> Returned(cfg.doc, 0)

\* server.py load_smartsheet_config()
load_smartsheet_config(cfg) == OpenAndLoad(cfg)

\* api/use-cases.py _load_config()
_load_config(cfg) == OpenAndLoad(cfg)

\* urllib.request.urlopen(req, timeout=15) followed by
\* json.loads(resp.read().decode("utf-8")): one outbound call.
UrlOpenAndParse(up) ==
    CASE up.kind = "transport" ->
             Raised(Exc("URLError", "<urlopen error [Errno 111] Connection refused>"), 1)
      [] up.kind = "timeout"   ->
             Raised(Exc("TimeoutError", "timed out"), 1)
      [] up.kind = "response" /\ ~(up.status >= 200 /\ up.status < 300) ->
             Raised(HTTPError(up.status, up.reason), 1)
      [] up.kind = "response" /\ up.body = "malformed" ->
             Raised(Exc("JSONDecodeError", "Expecting value: line 1 column 1 (char 0)"), 1)
      [] up.kind = "response" /\ up.body = "deep" ->
             Raised(Exc("RecursionError",
                        "maximum recursion depth exceeded while decoding a JSON array"), 1)
      [] OTHER -> Returned(up, 1)

-----------------------------------------------------------------------------
(* server.py: the transformation of fetch_smartsheet_data *)

\* for col in sheet.get("columns", []): col_id_to_title[col["id"]] = col["title"]
RECURSIVE DevColIdToTitle(_, _)
DevColIdToTitle(cols, acc) ==
    IF cols = <<>> THEN acc
    ELSE DevColIdToTitle(Tail(cols), Put(acc, Head(cols).id, Head(cols).title))

\* {v: k for k, v in field_to_title.items()}: a later item replaces an earlier
\* one with the same title.
RECURSIVE DevTitleToField(_, _)
DevTitleToField(items, acc) ==
    IF items = <<>> THEN acc
    ELSE DevTitleToField(Tail(items), Put(acc, Head(items).v, JStr(Head(items).k)))

\* Faulty variant: cell.get("value") or cell.get("displayValue") or ""
DevCellValueValueFirst(cell) ==
    PyOr(PyOr(Get(cell, "value", None), Get(cell, "displayValue", None)), JStr(""))

\* cell.get("displayValue") or cell.get("value") or ""
DevCellValue(cell) ==
    PyOr(PyOr(Get(cell, "displayValue", None), Get(cell, "value", None)), JStr(""))

\* The field a cell is written to, None when there is none:
\* title_to_field.get(col_id_to_title.get(cell.get("columnId", 0), ""))
DevCellField(cell, c2t, t2f) ==
    Get(t2f, Get(c2t, Get(cell, "columnId", 0), ""), None)

\* The body of the loop over a row's cells.
RECURSIVE DevCells(_, _, _, _)
DevCells(cells, record, c2t, t2f) ==
    IF cells = <<>> THEN record
    ELSE LET cell == Head(cells)
             field == DevCellField(cell, c2t, t2f)
         IN DevCells(Tail(cells),
                     IF Truthy(field) THEN Put(record, field.str, DevCellValue(cell))
                     ELSE record,
                     c2t, t2f)

\* record = {"id": idx}, then the loop over the cells
DevRecord(row, idx, c2t, t2f) ==
    DevCells(Get(row, "cells", <<>>), [id |-> JInt(idx)], c2t, t2f)

\* Faulty variant: if "name" in record
DevKeepPresent(record) == "name" \in DOMAIN record

\* if record.get("name"): use_cases.append(record)
DevKeep(record) == Truthy(Get(record, "name", None))

\* for idx, row in enumerate(sheet.get("rows", []), start=1)
RECURSIVE DevRows(_, _, _, _, _)
DevRows(rows, idx, use_cases, c2t, t2f) ==
    IF rows = <<>> THEN use_cases
    ELSE LET record == DevRecord(Head(rows), idx, c2t, t2f)
         IN DevRows(Tail(rows), idx + 1,
                    IF DevKeep(record) THEN Append(use_cases, record) ELSE use_cases,
                    c2t, t2f)

\* statuses.count(label) over [uc.get("status", "") for uc in use_cases]
DevCount(use_cases, label) ==
    Cardinality({i \in 1..Len(use_cases) :
                    Get(use_cases[i], "status", JStr("")) = JStr(label)})

\* Faulty variant: poc_done counts the label of poc_in_progress.
DevSummaryMislabelled(use_cases) ==
    [total_initiatives |-> Len(use_cases),
     in_production     |-> DevCount(use_cases, "In Production"),
     poc_done          |-> DevCount(use_cases, "POC In Progress"),
     poc_in_progress   |-> DevCount(use_cases, "POC In Progress")]

DevSummary(use_cases) ==
    [total_initiatives |-> Len(use_cases),
     in_production     |-> DevCount(use_cases, "In Production"),
     poc_done          |-> DevCount(use_cases, "POC Done"),
     poc_in_progress   |-> DevCount(use_cases, "POC In Progress")]

DevTransform(sheet, col_map) ==
    LET c2t == DevColIdToTitle(Get(sheet, "columns", <<>>), << >>)
        t2f == DevTitleToField(col_map, << >>)
        use_cases == DevRows(Get(sheet, "rows", <<>>), 1, <<>>, c2t, t2f)
    IN [metadata  |-> [title        |-> Get(sheet, "name", JStr("AI Use Cases")),
                       source       |-> "Smartsheet (live)",
                       last_updated |-> "live"],
        summary   |-> DevSummary(use_cases),
        use_cases |-> use_cases]

DevTokenMessage ==
    "SMARTSHEET_API_TOKEN environment variable is not set. Export it before starting the server for Smartsheet mode."

\* server.py fetch_smartsheet_data(): the payload, or the exception raised,
\* with the number of outbound calls made.
fetch_smartsheet_data(tok, cfg, up) ==
    IF Strip(EnvGet(tok)) = <<>> THEN Raised(Exc("RuntimeError", DevTokenMessage), 0)
    ELSE LET c == load_smartsheet_config(cfg) IN
         IF ~c.ok THEN c
         ELSE IF "sheet_id" \notin DOMAIN c.value THEN Raised(Exc("KeyError", "'sheet_id'"), 0)
         ELSE IF "column_map" \notin DOMAIN c.value
              THEN Raised(Exc("KeyError", "'column_map'"), 0)
         ELSE LET r == UrlOpenAndParse(up) IN
              IF ~r.ok THEN r
              ELSE IF r.value.body # "object"
                   THEN Raised(Exc("AttributeError", "'list' object has no attribute 'get'"), 1)
              ELSE Returned(DevTransform(r.value.sheet, c.value.column_map), 1)

-----------------------------------------------------------------------------
(* api/use-cases.py: the transformation of _fetch_smartsheet_data *)

MaxOf(S) == CHOOSE m \in S : \A n \in S : n <= m

\* {col["id"]: col["title"] for col in sheet.get("columns", [])}
SlsColIdToTitle(cols) ==
    [i \in {cols[k].id : k \in 1..Len(cols)} |->
        cols[MaxOf({k \in 1..Len(cols) : cols[k].id = i})].title]

\* {v: k for k, v in col_map.items()}
SlsTitleToField(items) ==
    [t \in {items[k].v : k \in 1..Len(items)} |->
        JStr(items[MaxOf({k \in 1..Len(items) : items[k].v = t})].k)]

\* cell.get("displayValue") or cell.get("value") or ""
SlsCellValue(cell) ==
    LET dv == Get(cell, "displayValue", None)
        v  == Get(cell, "value", None)
    IN IF Truthy(dv) THEN dv ELSE IF Truthy(v) THEN v ELSE JStr("")

SlsCellField(cell, c2t, t2f) ==
    LET col_title == Get(c2t, Get(cell, "columnId", 0), "")
    IN Get(t2f, col_title, None)

\* The record after the first n cells of the row.
RECURSIVE SlsRecord(_, _, _, _, _)
SlsRecord(row, idx, n, c2t, t2f) ==
    IF n = 0 THEN [id |-> JInt(idx)]
    ELSE LET before == SlsRecord(row, idx, n - 1, c2t, t2f)
             cell   == Get(row, "cells", <<>>)[n]
             field  == SlsCellField(cell, c2t, t2f)
         IN IF Truthy(field) THEN Put(before, field.str, SlsCellValue(cell)) ELSE before

\* Faulty variant: if "name" in record
SlsKeepPresent(record) == "name" \in DOMAIN record

SlsKeep(record) == Truthy(Get(record, "name", None))

\* use_cases after the first n rows.
RECURSIVE SlsUseCases(_, _, _, _)
SlsUseCases(rows, n, c2t, t2f) ==
    IF n = 0 THEN <<>>
    ELSE LET before == SlsUseCases(rows, n - 1, c2t, t2f)
             record == SlsRecord(rows[n], n, Len(Get(rows[n], "cells", <<>>)), c2t, t2f)
         IN IF SlsKeep(record) THEN Append(before, record) ELSE before

SlsStatuses(use_cases) ==
    [i \in 1..Len(use_cases) |-> Get(use_cases[i], "status", JStr(""))]

SlsCount(statuses, label) ==
    Cardinality({i \in DOMAIN statuses : statuses[i] = JStr(label)})

SlsTransform(sheet, col_map) ==
    LET c2t == SlsColIdToTitle(Get(sheet, "columns", <<>>))
        t2f == SlsTitleToField(col_map)
        rows == Get(sheet, "rows", <<>>)
        use_cases == SlsUseCases(rows, Len(rows), c2t, t2f)
        statuses == SlsStatuses(use_cases)
    IN [metadata  |-> [title        |-> Get(sheet, "name", JStr("AI Use Cases")),
                       source       |-> "Smartsheet (live)",
                       last_updated |-> "live"],
        summary   |-> [total_initiatives |-> Len(use_cases),
                       in_production     |-> SlsCount(statuses, "In Production"),
                       poc_done          |-> SlsCount(statuses, "POC Done"),
                       poc_in_progress   |-> SlsCount(statuses, "POC In Progress")],
        use_cases |-> use_cases]

SlsTokenMessage == "SMARTSHEET_API_TOKEN is not configured."

\* api/use-cases.py _fetch_smartsheet_data()
_fetch_smartsheet_data(tok, cfg, up) ==
    IF Strip(EnvGet(tok)) = <<>> THEN Raised(Exc("RuntimeError", SlsTokenMessage), 0)
    ELSE LET c == _load_config(cfg) IN
         IF ~c.ok THEN c
         ELSE IF "sheet_id" \notin DOMAIN c.value THEN Raised(Exc("KeyError", "'sheet_id'"), 0)
         ELSE IF "column_map" \notin DOMAIN c.value
              THEN Raised(Exc("KeyError", "'column_map'"), 0)
         ELSE LET r == UrlOpenAndParse(up) IN
              IF ~r.ok THEN r
              ELSE IF r.value.body # "object"
                   THEN Raised(Exc("AttributeError", "'list' object has no attribute 'get'"), 1)
              ELSE Returned(SlsTransform(r.value.sheet, c.value.column_map), 1)

-----------------------------------------------------------------------------
(* The connection to the client, as BaseHTTPRequestHandler drives it:       *)
(*   buf      the header buffer (send_response and send_header append,      *)
(*            end_headers writes it out and clears it only when the write   *)
(*            succeeds)                                                     *)
(*   wire     what has been written to the socket                           *)
(*   n        the number of socket writes attempted                         *)
(*   sent     the responses the handler has started: status and body        *)
(*   raised   an exception is propagating                                   *)
(* faults is the set of socket writes (by number) that fail.                *)

NewConn == [buf |-> <<>>, wire |-> <<>>, n |-> 0, sent |-> <<>>, raised |-> FALSE]

send_response(c, code, body) ==
    [c EXCEPT !.buf = Append(@, [status |-> code]),
              !.sent = Append(@, [code |-> code, body |-> body])]

send_header(c, k, v) == [c EXCEPT !.buf = Append(@, [header |-> k, value |-> v])]

SocketWrite(c, data, faults) ==
    IF (c.n + 1) \in faults
    THEN [c EXCEPT !.n = @ + 1, !.raised = TRUE]
    ELSE [c EXCEPT !.n = @ + 1, !.wire = Append(@, data)]

end_headers(c, faults) ==
    LET w == SocketWrite(c, [head |-> c.buf], faults)
    IN IF w.raised THEN w ELSE [w EXCEPT !.buf = <<>>]

Catch(c) == [c EXCEPT !.raised = FALSE]

BrokenPipe == Exc("BrokenPipeError", "[Errno 32] Broken pipe")

\* server.py AppHandler._send_error
DevSendError(c, code, message, faults) ==
    LET body == [error |-> message]
        c1 == send_response(c, code, body)
        c2 == send_header(c1, "Content-Type", "application/json")
        c3 == send_header(c2, "Content-Length", "len(body)")
        c4 == end_headers(c3, faults)
    IN IF c4.raised THEN c4 ELSE SocketWrite(c4, [body |-> body], faults)

\* api/use-cases.py handler._send_error
SlsSendError(c, code, message, faults) ==
    LET body == [error |-> message]
        c1 == send_response(c, code, body)
        c2 == send_header(c1, "Content-Type", "application/json")
        c3 == end_headers(c2, faults)
    IN IF c3.raised THEN c3 ELSE SocketWrite(c3, [body |-> body], faults)

\* Faulty variant: except (RuntimeError, OSError) answers 503.
DevStatusForOSError(exc) ==
    IF IsInstance(exc, "RuntimeError") \/ IsInstance(exc, "OSError") THEN 503
    ELSE IF IsInstance(exc, "HTTPError") THEN 502
    ELSE 500

\* The status an exception caught in the try block is answered with.
DevStatusFor(exc) ==
    IF IsInstance(exc, "RuntimeError") THEN 503
    ELSE IF IsInstance(exc, "HTTPError") THEN 502
    ELSE 500

DevMessageFor(exc) ==
    IF IsInstance(exc, "RuntimeError") THEN exc.msg
    ELSE IF IsInstance(exc, "HTTPError")
         THEN "Smartsheet API returned " \o ToString(exc.code) \o ": " \o exc.reason
    ELSE "Internal error: " \o exc.msg

SlsStatusFor(exc) ==
    CASE IsInstance(exc, "RuntimeError") -> 503
      [] ~IsInstance(exc, "RuntimeError") /\ IsInstance(exc, "HTTPError") -> 502
      [] OTHER -> 500

SlsMessageFor(exc) ==
    CASE IsInstance(exc, "RuntimeError") -> exc.msg
      [] ~IsInstance(exc, "RuntimeError") /\ IsInstance(exc, "HTTPError") ->
             "Smartsheet API returned " \o ToString(exc.code) \o ": " \o exc.reason
      [] OTHER -> "Internal error: " \o exc.msg

\* server.py AppHandler._handle_api: the connection when the handler is left.
_handle_api(tok, cfg, up, faults) ==
    LET f == fetch_smartsheet_data(tok, cfg, up) IN
    IF ~f.ok
    THEN DevSendError(NewConn, DevStatusFor(f.exc), DevMessageFor(f.exc), faults)
    ELSE LET c1 == send_response(NewConn, 200, f.value)
             c2 == send_header(c1, "Content-Type", "application/json")
             c3 == send_header(c2, "Content-Length", "len(body)")
             c4 == send_header(c3, "Cache-Control", "no-cache")
             c5 == end_headers(c4, faults)
             c6 == IF c5.raised THEN c5 ELSE SocketWrite(c5, [body |-> f.value], faults)
         IN IF c6.raised
            THEN DevSendError(Catch(c6), DevStatusFor(BrokenPipe),
                              DevMessageFor(BrokenPipe), faults)
            ELSE c6

\* api/use-cases.py handler.do_GET
do_GET(tok, cfg, up, faults) ==
    LET f == _fetch_smartsheet_data(tok, cfg, up) IN
    IF ~f.ok
    THEN SlsSendError(NewConn, SlsStatusFor(f.exc), SlsMessageFor(f.exc), faults)
    ELSE LET c1 == send_response(NewConn, 200, f.value)
             c2 == send_header(c1, "Content-Type", "application/json")
             c3 == send_header(c2, "Cache-Control", "s-maxage=60, stale-while-revalidate=300")
             c4 == end_headers(c3, faults)
             c5 == IF c4.raised THEN c4 ELSE SocketWrite(c4, [body |-> f.value], faults)
         IN IF c5.raised
            THEN SlsSendError(Catch(c5), SlsStatusFor(BrokenPipe),
                              SlsMessageFor(BrokenPipe), faults)
            ELSE c5

-----------------------------------------------------------------------------
(* Inputs *)

RECURSIVE SeqsOfLen(_, _)
SeqsOfLen(S, n) ==
    IF n = 0 THEN {<<>>} ELSE {Append(q, x) : q \in SeqsOfLen(S, n - 1), x \in S}

SeqsUpTo(S, n) == UNION {SeqsOfLen(S, k) : k \in 0..n}

\* The environment variable: unset, or a string of up to MaxTokenLen characters.
Tokens ==
    {[set |-> FALSE, chars |-> <<>>]}
        \cup {[set |-> TRUE, chars |-> q] : q \in SeqsUpTo({" ", "t"}, MaxTokenLen)}

Item(k, v) == [k |-> k, v |-> v]

PlainFieldMap == <<Item("name", "Use Case"), Item("status", "Status")>>

\* column_map documents, as the ordered items of the JSON object: the plain
\* one, one with a field named id, one with an empty title, one with two
\* fields on one title, one with an empty field name.
FieldMaps ==
    { PlainFieldMap,
      <<Item("name", "Use Case"), Item("id", "Status")>>,
      <<Item("name", ""), Item("status", "Status")>>,
      <<Item("name", "Use Case"), Item("status", "Use Case")>>,
      <<Item("name", "Use Case"), Item("", "Status")>> }

ConfigDoc(fm) == [sheet_id |-> "123", column_map |-> fm]

GoodConfigs == {[file |-> "json", doc |-> ConfigDoc(fm)] : fm \in FieldMaps}

BadConfigs ==
    {[file |-> f, doc |-> << >>] : f \in {"absent", "unreadable", "invalid", "deep"}}
        \cup {[file |-> "json", doc |-> [sheet_id |-> "123"]]}

Column(id, title) == [id |-> id, title |-> title]

PlainColumns == <<Column(1, "Use Case"), Column(2, "Status")>>

\* Column lists: the plain one, one with a column of id 0, one with an id
\* used twice.
ColumnLists ==
    { PlainColumns,
      <<Column(0, "Use Case"), Column(2, "Status")>>,
      <<Column(1, "Use Case"), Column(1, "Status")>> }

Absent == "<absent>"

\* A cell with the keys that are given: col is [has |-> FALSE] or
\* [has |-> TRUE, id |-> n]; dv and v are strings, or Absent.
MkCell(col, dv, v) ==
    LET keys == (IF col.has THEN {"columnId"} ELSE {})
                    \cup (IF dv # Absent THEN {"displayValue"} ELSE {})
                    \cup (IF v # Absent THEN {"value"} ELSE {})
    IN [k \in keys |-> CASE k = "columnId"     -> col.id
                         [] k = "displayValue" -> JStr(dv)
                         [] OTHER              -> JStr(v)]

Col(n) == [has |-> TRUE, id |-> n]

NoCol == [has |-> FALSE]

Cells ==
    {MkCell(c, dv, v) : c \in {NoCol, Col(1), Col(2)},
                        dv \in {Absent, "", "POC Done"},
                        v \in {Absent, "", "In Production"}}

Row(cells) == [cells |-> cells]

\* The row lists whose rows and cells together number at most budget, a row
\* holding at most width cells.
RECURSIVE RowLists(_, _)
RowLists(budget, width) ==
    {<<>>} \cup
    UNION {{<<Row(cells)>> \o rest : cells \in SeqsOfLen(Cells, k),
                                     rest \in RowLists(budget - 1 - k, width)} :
           k \in 0..(IF budget - 1 < width THEN budget - 1 ELSE width)}

\* A row of a sheet holds at most one cell per column of the sheet.
GeneratedRowLists == RowLists(MaxSheetSize, Len(PlainColumns))

GeneratedSheets ==
    {[columns |-> cols, rows |-> rows] : cols \in ColumnLists, rows \in GeneratedRowLists}

\* Fixed payloads: the end-to-end scenario and the field precedence examples
\* of the specification, a sheet with every tracked status, a sheet with a name.
ExampleSheets ==
    { [name    |-> JStr("AI Portfolio"),
       columns |-> <<Column(1, "Use Case"), Column(2, "Status")>>,
       rows    |-> << Row(<<MkCell(Col(1), Absent, "Chatbot"),
                            MkCell(Col(2), Absent, "In Production")>>),
                      Row(<<MkCell(Col(1), Absent, "")>>) >>],
      [columns |-> <<Column(1, "Use Case"), Column(2, "Status")>>,
       rows    |-> << Row(<<MkCell(Col(1), "B", "A")>>),
                      Row(<<MkCell(Col(2), "POC Done", Absent)>>),
                      Row(<<MkCell(Col(1), "", "A"), MkCell(Col(2), "", "POC Done")>>) >>],
      [columns |-> <<Column(1, "Use Case"), Column(2, "Owner"), Column(2, "Status")>>,
       rows    |-> << Row(<<MkCell(Col(1), Absent, "Search"),
                            MkCell(Col(2), Absent, "POC In Progress")>>),
                      Row(<<MkCell(NoCol, Absent, "Orphan")>>),
                      Row(<<MkCell(Col(1), "Triage", Absent),
                            MkCell(Col(2), Absent, "in production")>>),
                      Row(<<MkCell(Col(2), Absent, "POC In Progress"),
                            MkCell(Col(1), Absent, "Routing")>>) >>],
      [columns |-> <<>>, rows |-> <<>>] }

Response(status, reason, body, sheet) ==
    [kind |-> "response", status |-> status, reason |-> reason, body |-> body,
     sheet |-> sheet]

OkResponses(sheets) == {Response(200, "OK", "object", sh) : sh \in sheets}

\* Upstream outcomes that are not a sheet.
FailedUpstreams ==
    { [kind |-> "transport"], [kind |-> "timeout"],
      Response(404, "Not Found", "none", << >>),
      Response(401, "Unauthorized", "none", << >>),
      Response(500, "Internal Server Error", "none", << >>),
      Response(200, "OK", "malformed", << >>),
      Response(200, "OK", "deep", << >>),
      Response(200, "OK", "list", << >>) }

\* A request writes to the socket at most four times: headers and body of
\* the 200 response, then headers and body of the error response.
FaultSets == SUBSET (1..4)

-----------------------------------------------------------------------------------------------------------------------------------------------------
(* State machine.  The handlers keep nothing from one request to the next  *)
(* (token and configuration are read afresh by every request), so a        *)
(* behaviour is one request: req is what the outside world will answer     *)
(* during the request (the upstream outcome, the socket writes that fail), *)
(* resp is what the handler has done once it has run.                      *)

NoResponse == [pipeline |-> "none", conn |-> NewConn, calls |-> 0]

\* GET /api/use-cases on the local-dev server (AppHandler.do_GET -> _handle_api)
DevRequest ==
    /\ resp.pipeline = "none"
    /\ resp' = [pipeline |-> "dev",
                conn     |-> _handle_api(token, config, req.up, req.faults),
                calls    |-> fetch_smartsheet_data(token, config, req.up).calls]
    /\ UNCHANGED <<token, config, req>>

\* GET /api/use-cases on the serverless function (handler.do_GET)
SlsRequest ==
    /\ resp.pipeline = "none"
    /\ resp' = [pipeline |-> "sls",
                conn     |-> do_GET(token, config, req.up, req.faults),
                calls    |-> _fetch_smartsheet_data(token, config, req.up).calls]
    /\ UNCHANGED <<token, config, req>>

Next == DevRequest \/ SlsRequest

\* Requests under every token, configuration, upstream outcome and client fault.
Init ==
    /\ token \in Tokens
    /\ config \in GoodConfigs \cup BadConfigs
    /\ req \in [up : FailedUpstreams \cup OkResponses(ExampleSheets), faults : FaultSets]
    /\ resp = NoResponse

Spec == Init /\ [][Next]_vars

\* The transformation: token and configuration in place, the upstream
\* answering with a sheet, the client reading the whole response.
InitTransform ==
    /\ token = [set |-> TRUE, chars |-> <<"t">>]
    /\ config \in GoodConfigs
    /\ \E sheet \in GeneratedSheets \cup ExampleSheets :
          req = [up |-> Response(200, "OK", "object", sheet), faults |-> {}]
    /\ resp = NoResponse

SpecTransform == InitTransform /\ [][Next]_vars

-----------------------------------------------------------------------------
(* What the claims speak of *)

Answered == resp.pipeline # "none"

\* The responses the handler started, in order: status and body.
Sent == resp.conn.sent

\* The token is absent, or empty once whitespace is trimmed.
TokenBlank == ~token.set \/ \A i \in 1..Len(token.chars) : token.chars[i] = " "

ConfigLoads == config.file = "json" /\ {"sheet_id", "column_map"} \subseteq DOMAIN config.doc

UpstreamNon2xx == req.up.kind = "response" /\ (req.up.status < 200 \/ req.up.status > 299)

UpstreamSheet ==
    req.up.kind = "response" /\ ~UpstreamNon2xx /\ req.up.body = "object"

\* Transport error, timeout, malformed JSON, unexpected payload shape.
UpstreamOtherFailure == ~UpstreamNon2xx /\ ~UpstreamSheet

Succeeded == Answered /\ Len(Sent) >= 1 /\ Sent[1].code = 200

UseCases == Sent[1].body.use_cases

Summary == Sent[1].body.summary

InRows == req.up.sheet.rows

InColumns == req.up.sheet.columns

CellsOf(i) == InRows[i].cells

\* The record the answering pipeline builds for input row i, before filtering.
Built(i) ==
    IF resp.pipeline = "dev"
    THEN DevRecord(InRows[i], i, DevColIdToTitle(InColumns, << >>),
                   DevTitleToField(config.doc.column_map, << >>))
    ELSE SlsRecord(InRows[i], i, Len(CellsOf(i)), SlsColIdToTitle(InColumns),
                   SlsTitleToField(config.doc.column_map))

\* The field the answering pipeline writes a cell to (None: it writes none).
FieldOf(cell) ==
    IF resp.pipeline = "dev"
    THEN DevCellField(cell, DevColIdToTitle(InColumns, << >>),
                      DevTitleToField(config.doc.column_map, << >>))
    ELSE SlsCellField(cell, SlsColIdToTitle(InColumns),
                      SlsTitleToField(config.doc.column_map))

NameNonEmpty(r) == "name" \in DOMAIN r /\ r.name # JStr("")

\* The positions, in input order, of the rows whose resolved name is present
\* and non-empty.
RECURSIVE KeptUpTo(_)
KeptUpTo(n) ==
    IF n = 0 THEN <<>>
    ELSE IF NameNonEmpty(Built(n)) THEN Append(KeptUpTo(n - 1), n) ELSE KeptUpTo(n - 1)

Kept == KeptUpTo(Len(InRows))

\* displayValue when present and non-empty, otherwise value when present and
\* non-empty, otherwise the empty string.
Precedence(cell) ==
    IF "displayValue" \in DOMAIN cell /\ cell.displayValue # JStr("")
    THEN cell.displayValue
    ELSE IF "value" \in DOMAIN cell /\ cell.value # JStr("") THEN cell.value
    ELSE JStr("")

\* The number of retained records whose status (empty string if absent) is label.
StatusCount(label) ==
    Cardinality({k \in 1..Len(UseCases) :
        (IF "status" \in DOMAIN UseCases[k] THEN UseCases[k].status ELSE JStr(""))
            = JStr(label)})

ErrorBody(message) == [error |-> message]

-----------------------------------------------------------------------------
(* Claims *)

\* C1: a GET on the API route with SMARTSHEET_API_TOKEN absent or blank is
\* answered with 503 and a JSON body {"error": <missing-token message>}, and
\* makes no outbound call, whether or not the configuration file is present.
C1_MissingToken503 ==
    (Answered /\ TokenBlank) =>
        /\ Len(Sent) = 1
        /\ Sent[1].code = 503
        /\ Sent[1].body \in {ErrorBody(DevTokenMessage), ErrorBody(SlsTokenMessage)}
        /\ resp.calls = 0

C1_Witness ==
    /\ Answered
    /\ token = [set |-> TRUE, chars |-> <<" ">>]
    /\ config.file = "absent"
    /\ Sent[1].code = 503
    /\ resp.calls = 0

\* C2 as stated: with a token configured and the configuration file absent
\* or unreadable, the response is 503 with a JSON error body.
C2_ConfigMissing503 ==
    (Answered /\ ~TokenBlank /\ config.file \in {"absent", "unreadable"}) =>
        /\ Sent[1].code = 503
        /\ DOMAIN Sent[1].body = {"error"}

\* C2 amended: with a token configured and the configuration file absent or
\* unreadable, the response is 500 with body {"error": "Internal error: <the
\* OS error>"}, and no outbound call is made.
C2_ConfigMissing500 ==
    (Answered /\ ~TokenBlank /\ config.file \in {"absent", "unreadable"}) =>
        /\ Len(Sent) = 1
        /\ Sent[1].code = 500
        /\ Sent[1].body \in
              {ErrorBody("Internal error: [Errno 2] No such file or directory"),
               ErrorBody("Internal error: [Errno 13] Permission denied")}
        /\ resp.calls = 0

C2_Witness ==
    /\ Answered
    /\ ~TokenBlank
    /\ config.file = "absent"
    /\ Sent[1].code = 500

\* C3: with token and configuration present, a non-2xx upstream answer c, r
\* gives 502 with body {"error": "Smartsheet API returned c: r"}; any other
\* failure (transport error, timeout, malformed JSON, unexpected payload
\* shape) gives 500 with a JSON error body; 200 is sent only when fetch and
\* transformation both succeed.
C3_UpstreamStatusMapping ==
    (Answered /\ ~TokenBlank /\ ConfigLoads) =>
        /\ UpstreamNon2xx =>
              Sent[1] = [code |-> 502,
                         body |-> ErrorBody("Smartsheet API returned "
                                     \o ToString(req.up.status) \o ": " \o req.up.reason)]
        /\ UpstreamOtherFailure =>
              (Sent[1].code = 500 /\ DOMAIN Sent[1].body = {"error"})
        /\ (\E i \in 1..Len(Sent) : Sent[i].code = 200) => UpstreamSheet

\* C4: every record of use_cases has a name that is present and non-empty,
\* and a row is dropped exactly when its resolved name is absent or the empty
\* string: use_cases is, in order, the records of the rows with such a name.
C4_NameFilter ==
    Succeeded =>
        /\ \A k \in 1..Len(UseCases) : NameNonEmpty(UseCases[k])
        /\ Len(UseCases) = Len(Kept)
        /\ \A k \in 1..Len(Kept) : UseCases[k] = Built(Kept[k])

C4_Witness ==
    /\ Succeeded
    /\ Len(UseCases) = 1
    /\ Len(InRows) = 2
    /\ "name" \in DOMAIN Built(2)
    /\ Built(2).name = JStr("")

\* C5: in_production + poc_done + poc_in_progress <= total_initiatives =
\* length(use_cases), each counter being the number of retained records whose
\* status (empty string if absent) is exactly its label.
C5_SummaryCounts ==
    Succeeded =>
        /\ Summary.total_initiatives = Len(UseCases)
        /\ Summary.in_production = StatusCount("In Production")
        /\ Summary.poc_done = StatusCount("POC Done")
        /\ Summary.poc_in_progress = StatusCount("POC In Progress")
        /\ Summary.in_production + Summary.poc_done + Summary.poc_in_progress
              <= Summary.total_initiatives

C5_Witness ==
    /\ Succeeded
    /\ Summary.total_initiatives = 3
    /\ Summary.poc_in_progress = 2
    /\ Summary.in_production = 0
    /\ \E k \in 1..Len(UseCases) : UseCases[k].status = JStr("in production")

\* C6: for every payload and every FieldMap, each record of use_cases carries
\* an id equal to the 1-based position of its source row among all input
\* rows, so ids are strictly increasing along the output.
C6_PositionalIds ==
    Succeeded =>
        /\ Len(UseCases) = Len(Kept)
        /\ \A k \in 1..Len(UseCases) : UseCases[k].id = JInt(Kept[k])
        /\ \A k \in 1..(Len(UseCases) - 1) :
              \E a, b \in 1..Len(InRows) :
                  a < b /\ UseCases[k].id = JInt(a) /\ UseCases[k + 1].id = JInt(b)

\* C7: the value stored for a cell whose column resolves to a domain field is
\* the cell's displayValue when present and non-empty, otherwise its value
\* when present and non-empty, otherwise the empty string (the last such cell
\* of a row is the one whose value the record keeps).
C7_DisplayValuePrecedence ==
    Succeeded =>
        \A i \in 1..Len(InRows) : \A j \in 1..Len(CellsOf(i)) :
            LET cell == CellsOf(i)[j]
                field == FieldOf(cell)
                last == \A m \in (j + 1)..Len(CellsOf(i)) : FieldOf(CellsOf(i)[m]) # field
            IN (field \notin {None, JStr("")} /\ last) =>
                  /\ Built(i)[field.str] = Precedence(cell)
                  /\ \A k \in 1..Len(Kept) :
                        Kept[k] = i => UseCases[k][field.str] = Precedence(cell)

C7_Witness ==
    /\ Succeeded
    /\ Len(InRows) = 3
    /\ CellsOf(1) = <<MkCell(Col(1), "B", "A")>>
    /\ Len(CellsOf(3)) = 2
    /\ CellsOf(3)[1] = MkCell(Col(1), "", "A")
    /\ Len(UseCases) = 2
    /\ UseCases[1].name = JStr("B")
    /\ UseCases[2].name = JStr("A")

\* C8: the handler emits exactly one response status for a request, whichever
\* step fails (token check, config load, fetch, transform, writing headers or
\* body to the client): never a 200 status line and then an error status.
C8_OneResponsePerRequest ==
    Answered =>
        /\ Len(Sent) = 1
        /\ ~(\E i, j \in 1..Len(Sent) : i < j /\ Sent[i].code = 200 /\ Sent[j].code # 200)

\* C9: the local-dev and the serverless pipeline answer the same request with
\* the same status codes and the same number of outbound calls; the bodies
\* are the same, but for the text of the missing-token message.
C9_PipelinesEquivalent ==
    Answered =>
        LET other == IF resp.pipeline = "dev"
                     THEN do_GET(token, config, req.up, req.faults)
                     ELSE _handle_api(token, config, req.up, req.faults)
            otherCalls == IF resp.pipeline = "dev"
                          THEN _fetch_smartsheet_data(token, config, req.up).calls
                          ELSE fetch_smartsheet_data(token, config, req.up).calls
        IN /\ Len(other.sent) = Len(Sent)
           /\ otherCalls = resp.calls
           /\ \A i \in 1..Len(Sent) :
                 /\ other.sent[i].code = Sent[i].code
                 /\ \/ other.sent[i].body = Sent[i].body
                    \/ /\ TokenBlank
                       /\ {other.sent[i].body, Sent[i].body}
                             = {ErrorBody(DevTokenMessage), ErrorBody(SlsTokenMessage)}

C9_Witness ==
    /\ Answered
    /\ resp.pipeline = "sls"
    /\ Sent[1].code = 200
    /\ Len(InRows) = 4
    /\ Len(UseCases) = 3
    /\ Summary.poc_in_progress = 2

\* C10: a cell whose columnId matches no Column of the payload, or that
\* carries no columnId, never sets any field of its row's record.
C10_UnresolvedCellWritesNothing ==
    Succeeded =>
        \A i \in 1..Len(InRows) : \A j \in 1..Len(CellsOf(i)) :
            LET cell == CellsOf(i)[j]
                unresolved ==
                    \/ "columnId" \notin DOMAIN cell
                    \/ \A c \in 1..Len(InColumns) : InColumns[c].id # cell.columnId
            IN unresolved => ~Truthy(FieldOf(cell))

====
